---- MODULE Spec2Model ----
(***************************************************************************)
(* Doubly linked list with cursors (exercises/doubly-linked-list).         *)
(*                                                                         *)
(* The heap is a map from node addresses to Node cells; the set alloc      *)
(* holds the addresses that are currently boxed.  Every helper of the      *)
(* NodePtrHelper trait and every method of LinkedList / Cursor is an       *)
(* operator on a machine record                                            *)
(*     m = [nodes, alloc, fault, list, node]                               *)
(* (node is Cursor.node, list is the LinkedList struct) and the actions    *)
(* below apply these operators to the variables.                           *)
(***************************************************************************)
EXTENDS Integers, Sequences, FiniteSets, TLC

\* Number of node addresses the allocator can hand out at one time.
MaxNodes == 3

\* Element values stored in the list (T).
Elems == {1, 2, 5}

\* OptNodePtr::None; NodePtr values are the addresses 1..MaxNodes.
None == 0

Nodes == 1..MaxNodes

\* Content of a cell that is not allocated.
FreeCell == [element |-> 0, next |-> None, prev |-> None]

VARIABLES
    nodes,      \* heap: address -> Node {element, next, prev}
    alloc,      \* addresses of the live (boxed) nodes
    fault,      \* memory / arithmetic faults that have happened so far
    list,       \* LinkedList {back, front, len}
    cursor,     \* [live: a Cursor borrows the list, node: Cursor.node]
    phase,      \* "live", "dropping" (inside Drop::drop), "dropped"
    last,       \* the last call: [name, arg, ret, pos]; pos is the place of
                \* the cursor in the reference model when the call was made
    model,      \* reference sequence model: [seq, pos]
    scen,       \* progress along the scenario of section 8 (-1: left it)
    drain,      \* bookkeeping of the drop loop: [n, start, taken, calls]
    walk,       \* elements a cursor walk has visited: [dir, seen, done]
    it          \* the Iter in use: [live, next_node, seen, done, round]

vars ==
    <<nodes, alloc, fault, list, cursor, phase, last, model, scen, drain, walk,
      it>>

\* Option<T> as a sequence of length <= 1.
Some(x) == <<x>>
NoneVal == <<>>

----------------------------------------------------------------------------
(* Raw memory                                                              *)

\* Dereference of a NodePtr: a fault when the node is not allocated.
touch(m, p) ==
    IF p \in m.alloc THEN m
    ELSE [m EXCEPT !.fault = @ \cup {"use_after_free"}]

get_next(m, p) == m.nodes[p].next

get_prev(m, p) == m.nodes[p].prev

\* *p.get_next() = v
set_next(m, p, v) == [touch(m, p) EXCEPT !.nodes[p].next = v]

\* *p.get_prev() = v
set_prev(m, p, v) == [touch(m, p) EXCEPT !.nodes[p].prev = v]

\* Node::allocate: Box::new at the fresh address p.
allocate(m, p, element, prev, next) ==
    [m EXCEPT !.nodes[p] = [element |-> element, next |-> next, prev |-> prev],
              !.alloc = @ \cup {p}]

new_linkless(m, p, element) == allocate(m, p, element, None, None)

----------------------------------------------------------------------------
(* NodePtrHelper                                                           *)

\* Mutant of link: the back link is forgotten.
link_half(m, left, right) == set_next(m, left, right)

link(m, left, right) == set_prev(set_next(m, left, right), right, left)

\* self.insert_between(prev, next); the result pointer is self.
insert_between(m, self, prev, next) == link(link(m, prev, self), self, next)

\* self.insert_new_after(element); the new node is at p, which is returned.
insert_new_after(m, self, p, element) ==
    LET next == get_next(m, self)
        m0   == touch(m, self)
    IN  IF next # None
        THEN insert_between(new_linkless(m0, p, element), p, self, next)
        ELSE link(new_linkless(m0, p, element), self, p)

\* Mutant of insert_new_before: the new node goes after self.
insert_new_before_swapped(m, self, p, element) ==
    insert_new_after(m, self, p, element)

insert_new_before(m, self, p, element) ==
    LET prev == get_prev(m, self)
        m0   == touch(m, self)
    IN  IF prev # None
        THEN insert_between(new_linkless(m0, p, element), p, prev, self)
        ELSE link(new_linkless(m0, p, element), p, self)

\* Mutant of unlink_next: next.prev is left pointing at self.
unlink_next_keep(m, self) == [m |-> touch(m, self), val |-> get_next(m, self)]

\* Returns next of self; clears next.prev, leaves self untouched.
unlink_next(m, self) ==
    LET next == get_next(m, self)
        m0   == touch(m, self)
    IN  [m   |-> IF next # None THEN set_prev(m0, next, None) ELSE m0,
         val |-> next]

unlink_prev(m, self) ==
    LET prev == get_prev(m, self)
        m0   == touch(m, self)
    IN  [m   |-> IF prev # None THEN set_next(m0, prev, None) ELSE m0,
         val |-> prev]

\* Mutant of into_inner: the element is read, the box is never freed.
into_inner_leak(m, self) ==
    [m |-> m, val |-> m.nodes[self].element]

\* Box::from_raw(self).element: the node's storage is released.
into_inner(m, self) ==
    [m   |-> [m EXCEPT !.nodes[self] = FreeCell,
                       !.alloc = @ \ {self},
                       !.fault = IF self \in m.alloc THEN @
                                 ELSE @ \cup {"double_free"}],
     val |-> m.nodes[self].element]

----------------------------------------------------------------------------
(* LinkedList                                                              *)

new == [back |-> None, front |-> None, len |-> 0]

len(m) == m.list.len

cursor_front(m) == [m EXCEPT !.node = m.list.front]

\* Mutant of cursor_back: the cursor starts at the front.
cursor_back_at_front(m) == [m EXCEPT !.node = m.list.front]

cursor_back(m) == [m EXCEPT !.node = m.list.back]

\* Mutant of iter: the iterator starts at the back.
iter_from_back(m) == [next_node |-> m.list.back]

\* LinkedList::iter: Iter {next_node: self.front}.
iter(m) == [next_node |-> m.list.front]

\* Iterator::next for Iter; i is the Iter.
Iter_next(m, i) ==
    IF i.next_node = None THEN [m |-> m, it |-> i, val |-> NoneVal]
    ELSE LET node_ptr == i.next_node
         IN  [m   |-> touch(m, node_ptr),
              it  |-> [next_node |-> m.nodes[node_ptr].next],
              val |-> Some(m.nodes[node_ptr].element)]

----------------------------------------------------------------------------
(* Cursor                                                                  *)

peek_mut(m) ==
    IF m.node = None THEN [m |-> m, val |-> NoneVal]
    ELSE [m |-> touch(m, m.node), val |-> Some(m.nodes[m.node].element)]

\* The get_next argument of _step: NodePtr::get_next or NodePtr::get_prev.
get_link(m, p, dir) == IF dir = "next" THEN get_next(m, p) ELSE get_prev(m, p)

\* Mutant of _step: a failed step makes the cursor ghost.
step_to_ghost(m, dir) ==
    IF m.node = None THEN [m |-> m, val |-> NoneVal]
    ELSE LET new_pos == get_link(m, m.node, dir)
             m0      == touch(m, m.node)
         IN  IF new_pos # None
             THEN [m   |-> [touch(m0, new_pos) EXCEPT !.node = new_pos],
                   val |-> Some(m.nodes[new_pos].element)]
             ELSE [m |-> [m0 EXCEPT !.node = None], val |-> NoneVal]

\* Mutant of _step: a failed step wraps to the other end of the list.
step_wrap(m, dir) ==
    IF m.node = None THEN [m |-> m, val |-> NoneVal]
    ELSE LET new_pos == get_link(m, m.node, dir)
             m0      == touch(m, m.node)
             other   == IF dir = "next" THEN m.list.front ELSE m.list.back
         IN  IF new_pos # None
             THEN [m   |-> [touch(m0, new_pos) EXCEPT !.node = new_pos],
                   val |-> Some(m.nodes[new_pos].element)]
             ELSE [m |-> [m0 EXCEPT !.node = other], val |-> NoneVal]

\* _step(get_next): on None from get_next the cursor is left as it is.
_step(m, dir) ==
    IF m.node = None THEN [m |-> m, val |-> NoneVal]
    ELSE LET new_pos == get_link(m, m.node, dir)
             m0      == touch(m, m.node)
         IN  IF new_pos # None
             THEN [m   |-> [touch(m0, new_pos) EXCEPT !.node = new_pos],
                   val |-> Some(m.nodes[new_pos].element)]
             ELSE [m |-> m0, val |-> NoneVal]

Cursor_next(m) == _step(m, "next")

Cursor_prev(m) == _step(m, "prev")

\* Mutant of len_sub_1: the decrement is forgotten.
len_keep(m) == m

\* self.list.len -= 1 on a usize: at 0 the debug build panics and the release
\* build wraps; either way the fault is recorded.
len_sub_1(m) ==
    IF m.list.len = 0
    THEN [m EXCEPT !.fault = @ \cup {"len_underflow"}]
    ELSE [m EXCEPT !.list.len = @ - 1]

\* Mutant of take_match: the cursor is ghost after every removal.
take_match_ghost(m, prev, next) ==
    IF prev # None /\ next # None
      THEN link([m EXCEPT !.node = None], prev, next)
    ELSE IF prev # None
      THEN [m EXCEPT !.node = None, !.list.back = prev]
    ELSE IF next # None
      THEN [m EXCEPT !.node = None, !.list.front = next]
    ELSE [m EXCEPT !.node = None, !.list.back = None, !.list.front = None]

\* Mutant of take_match: removing the only node leaves front and back set.
take_match_stale(m, prev, next) ==
    IF prev # None /\ next # None
      THEN link([m EXCEPT !.node = next], prev, next)
    ELSE IF prev # None
      THEN [m EXCEPT !.node = prev, !.list.back = prev]
    ELSE IF next # None
      THEN [m EXCEPT !.node = next, !.list.front = next]
    ELSE [m EXCEPT !.node = None]

\* Mutant of take_match: with both neighbours the cursor goes to prev.
take_match_to_prev(m, prev, next) ==
    IF prev # None /\ next # None
      THEN link([m EXCEPT !.node = prev], prev, next)
    ELSE IF prev # None
      THEN [m EXCEPT !.node = prev, !.list.back = prev]
    ELSE IF next # None
      THEN [m EXCEPT !.node = next, !.list.front = next]
    ELSE [m EXCEPT !.node = None, !.list.back = None, !.list.front = None]

\* The `match (prev, next)` of take().
take_match(m, prev, next) ==
    IF prev # None /\ next # None
      THEN link([m EXCEPT !.node = next], prev, next)
    ELSE IF prev # None
      THEN [m EXCEPT !.node = prev, !.list.back = prev]
    ELSE IF next # None
      THEN [m EXCEPT !.node = next, !.list.front = next]
    ELSE [m EXCEPT !.node = None, !.list.back = None, !.list.front = None]

\* take() up to and including `self.list.len -= 1`: the node is unlinked and
\* the cursor and the boundary pointers are moved, the node is still boxed.
take_unlink(m) ==
    LET node == m.node
        r1   == unlink_next(m, node)
        next == r1.val
        r2   == unlink_prev(r1.m, node)
        prev == r2.val
    IN  len_sub_1(take_match(r2.m, prev, next))

\* Mutant of take: the length is decremented before the ghost check.
take_dec_first(m) ==
    IF m.node = None THEN [m |-> len_sub_1(m), val |-> NoneVal]
    ELSE LET r == into_inner(take_match(unlink_prev(unlink_next(m, m.node).m,
                                                    m.node).m,
                                        get_prev(m, m.node),
                                        get_next(m, m.node)), m.node)
         IN  [m |-> r.m, val |-> Some(r.val)]

take(m) ==
    IF m.node = None THEN [m |-> m, val |-> NoneVal]
    ELSE LET r == into_inner(take_unlink(m), m.node)
         IN  [m |-> r.m, val |-> Some(r.val)]

\* Mutant of insert_after_callback: list.back is never moved.
insert_after_callback_no_back(m, cursor_node, p, element) ==
    insert_new_after(m, cursor_node, p, element)

\* The closure insert_after passes to _insert.
insert_after_callback(m, cursor_node, p, element) ==
    LET m1 == insert_new_after(m, cursor_node, p, element)
    IN  IF m1.list.back = cursor_node THEN [m1 EXCEPT !.list.back = p] ELSE m1

\* The closure insert_before passes to _insert.
insert_before_callback(m, cursor_node, p, element) ==
    LET m1 == insert_new_before(m, cursor_node, p, element)
    IN  IF m1.list.front = cursor_node THEN [m1 EXCEPT !.list.front = p] ELSE m1

callback(m, cursor_node, p, element, which) ==
    IF which = "after" THEN insert_after_callback(m, cursor_node, p, element)
    ELSE insert_before_callback(m, cursor_node, p, element)

\* Mutant of _insert: the first node becomes front but not back.
insert_no_back(m, element, p, which) ==
    IF m.node = None
    THEN [new_linkless(m, p, element) EXCEPT
              !.node = p, !.list.front = p, !.list.len = @ + 1]
    ELSE [callback(m, m.node, p, element, which) EXCEPT !.list.len = @ + 1]

\* _insert(element, callback); p is the address the allocation returns.
_insert(m, element, p, which) ==
    IF m.node = None
    THEN [new_linkless(m, p, element) EXCEPT
              !.node = p, !.list.back = p, !.list.front = p, !.list.len = @ + 1]
    ELSE [callback(m, m.node, p, element, which) EXCEPT !.list.len = @ + 1]

insert_after(m, element, p) == _insert(m, element, p, "after")

insert_before(m, element, p) == _insert(m, element, p, "before")

----------------------------------------------------------------------------
(* Observations of the heap                                                *)

RECURSIVE WalkNext(_, _, _)
\* Elements met by following next from p, for at most fuel nodes.
WalkNext(h, p, fuel) ==
    IF p = None \/ fuel = 0 THEN <<>>
    ELSE <<h[p].element>> \o WalkNext(h, h[p].next, fuel - 1)

RECURSIVE WalkPrev(_, _, _)
\* Elements met by following prev from p, for at most fuel nodes.
WalkPrev(h, p, fuel) ==
    IF p = None \/ fuel = 0 THEN <<>>
    ELSE <<h[p].element>> \o WalkPrev(h, h[p].prev, fuel - 1)

RECURSIVE ChainNext(_, _, _)
\* Addresses met by following next from p, for at most fuel nodes.
ChainNext(h, p, fuel) ==
    IF p = None \/ fuel = 0 THEN <<>>
    ELSE <<p>> \o ChainNext(h, h[p].next, fuel - 1)

\* One more than the number of addresses: a walk this long has met a cycle.
Fuel == MaxNodes + 1

\* Front-to-back element sequence of the list, as Iter yields it.
ListSeq == WalkNext(nodes, list.front, Fuel)

\* Back-to-front element sequence of the list.
ListSeqBack == WalkPrev(nodes, list.back, Fuel)

Range(s) == {s[i] : i \in 1..Len(s)}

----------------------------------------------------------------------------
(* Reference sequence model: a sequence and a cursor index (0 = ghost)     *)

InsertAt(s, i, e) == SubSeq(s, 1, i - 1) \o <<e>> \o SubSeq(s, i, Len(s))

RemoveAt(s, i) == SubSeq(s, 1, i - 1) \o SubSeq(s, i + 1, Len(s))

RefCursorFront(r) == [r EXCEPT !.pos = IF Len(r.seq) = 0 THEN 0 ELSE 1]

RefCursorBack(r) == [r EXCEPT !.pos = Len(r.seq)]

RefNext(r) ==
    IF r.pos # 0 /\ r.pos < Len(r.seq) THEN [r EXCEPT !.pos = @ + 1] ELSE r

RefPrev(r) == IF r.pos > 1 THEN [r EXCEPT !.pos = @ - 1] ELSE r

\* e goes immediately after the cursor's element; the cursor stays on its
\* element.  A ghost cursor appends and moves onto e.
RefInsertAfter(r, e) ==
    IF r.pos = 0 THEN [seq |-> r.seq \o <<e>>, pos |-> Len(r.seq) + 1]
    ELSE [r EXCEPT !.seq = InsertAt(r.seq, r.pos + 1, e)]

\* e goes immediately before the cursor's element; the cursor stays on its
\* element, which is now one position further.
RefInsertBefore(r, e) ==
    IF r.pos = 0 THEN [seq |-> r.seq \o <<e>>, pos |-> Len(r.seq) + 1]
    ELSE [seq |-> InsertAt(r.seq, r.pos, e), pos |-> r.pos + 1]

\* Deletes exactly the cursor's element; the cursor goes to the element that
\* followed it, or to the one before it when there is none.
RefTake(r) ==
    IF r.pos = 0 THEN r
    ELSE [seq |-> RemoveAt(r.seq, r.pos),
          pos |-> IF r.pos < Len(r.seq) THEN r.pos ELSE r.pos - 1]

\* The scenario of section 8: a cursor on the new list, insert_after(1),
\* insert_after(2), next(), insert_before(5), take().
Scenario ==
    << [name |-> "insert_after", arg |-> 1],
       [name |-> "insert_after", arg |-> 2],
       [name |-> "next", arg |-> 0],
       [name |-> "insert_before", arg |-> 5],
       [name |-> "take", arg |-> 0] >>

ScenarioDone == Len(Scenario) + 1

\* scen counts the calls made so far when they are exactly a prefix of
\* (cursor_front | cursor_back), Scenario; -1 otherwise.
ScenStep(s, name, arg) ==
    IF s = 0 THEN (IF name \in {"cursor_front", "cursor_back"} THEN 1 ELSE -1)
    ELSE IF s >= 1 /\ s < ScenarioDone
              /\ Scenario[s] = [name |-> name, arg |-> arg]
         THEN s + 1
    ELSE -1

----------------------------------------------------------------------------
(* State machine                                                           *)

M == [nodes |-> nodes, alloc |-> alloc, fault |-> fault, list |-> list,
      node |-> cursor.node]

Commit(m) ==
    /\ nodes' = m.nodes
    /\ alloc' = m.alloc
    /\ fault' = m.fault
    /\ list' = m.list
    /\ cursor' = [live |-> TRUE, node |-> m.node]

Call(name, arg, ret) ==
    /\ last' = [name |-> name, arg |-> arg, ret |-> ret, pos |-> model.pos]
    /\ scen' = ScenStep(scen, name, arg)

NoDrain == [n |-> 0, start |-> <<>>, taken |-> <<>>, calls |-> 0]

\* No Iter is in use.
NoIter ==
    [live |-> FALSE, next_node |-> None, seen |-> <<>>, done |-> FALSE,
     round |-> 0]

\* No walk is under way: the last cursor was not only stepped one way.
NoWalk == [dir |-> "none", seen |-> <<>>, done |-> FALSE]

\* A walk starts on the cursor a cursor_front() / cursor_back() returned; its
\* first visit is the element that cursor is on.
StartWalk(dir, m) == [dir |-> dir, seen |-> peek_mut(m).val, done |-> FALSE]

\* A step in the walk's direction visits what the step returns and ends the
\* walk when it returns None; any other step abandons the walk.
StepWalk(w, dir, ret) ==
    IF w.dir = dir /\ ~w.done
    THEN [w EXCEPT !.seen = @ \o ret, !.done = (ret = NoneVal)]
    ELSE NoWalk

\* LinkedList::new(); no cursor has been made yet.
Init ==
    /\ nodes = [p \in Nodes |-> FreeCell]
    /\ alloc = {}
    /\ fault = {}
    /\ list = new
    /\ cursor = [live |-> FALSE, node |-> None]
    /\ phase = "live"
    /\ last = [name |-> "new", arg |-> 0, ret |-> NoneVal, pos |-> 0]
    /\ model = [seq |-> <<>>, pos |-> 0]
    /\ scen = 0
    /\ drain = NoDrain
    /\ walk = NoWalk
    /\ it = NoIter

CursorFront ==
    /\ phase = "live"
    /\ it' = NoIter
    /\ Commit(cursor_front(M))
    /\ Call("cursor_front", 0, NoneVal)
    /\ model' = RefCursorFront(model)
    /\ walk' = StartWalk("next", cursor_front(M))
    /\ UNCHANGED <<phase, drain>>

CursorBack ==
    /\ phase = "live"
    /\ it' = NoIter
    /\ Commit(cursor_back(M))
    /\ Call("cursor_back", 0, NoneVal)
    /\ model' = RefCursorBack(model)
    /\ walk' = StartWalk("prev", cursor_back(M))
    /\ UNCHANGED <<phase, drain>>

PeekMut ==
    /\ phase = "live" /\ cursor.live
    /\ it' = NoIter
    /\ LET r == peek_mut(M)
       IN  Commit(r.m) /\ Call("peek_mut", 0, r.val)
    /\ UNCHANGED <<phase, drain, model, walk>>

Next_ ==
    /\ phase = "live" /\ cursor.live
    /\ it' = NoIter
    /\ LET r == Cursor_next(M)
       IN  /\ Commit(r.m) /\ Call("next", 0, r.val)
           /\ walk' = StepWalk(walk, "next", r.val)
    /\ model' = RefNext(model)
    /\ UNCHANGED <<phase, drain>>

Prev ==
    /\ phase = "live" /\ cursor.live
    /\ it' = NoIter
    /\ LET r == Cursor_prev(M)
       IN  /\ Commit(r.m) /\ Call("prev", 0, r.val)
           /\ walk' = StepWalk(walk, "prev", r.val)
    /\ model' = RefPrev(model)
    /\ UNCHANGED <<phase, drain>>

Take ==
    /\ phase = "live" /\ cursor.live
    /\ it' = NoIter
    /\ LET r == take(M)
       IN  Commit(r.m) /\ Call("take", 0, r.val)
    /\ model' = RefTake(model)
    /\ walk' = NoWalk
    /\ UNCHANGED <<phase, drain>>

\* The allocation needs a free address: at most MaxNodes nodes are live.
InsertAfter ==
    /\ phase = "live" /\ cursor.live
    /\ it' = NoIter
    /\ \E element \in Elems, p \in Nodes \ alloc :
          /\ Commit(insert_after(M, element, p))
          /\ Call("insert_after", element, NoneVal)
          /\ model' = RefInsertAfter(model, element)
    /\ walk' = NoWalk
    /\ UNCHANGED <<phase, drain>>

InsertBefore ==
    /\ phase = "live" /\ cursor.live
    /\ it' = NoIter
    /\ \E element \in Elems, p \in Nodes \ alloc :
          /\ Commit(insert_before(M, element, p))
          /\ Call("insert_before", element, NoneVal)
          /\ model' = RefInsertBefore(model, element)
    /\ walk' = NoWalk
    /\ UNCHANGED <<phase, drain>>

\* Drop::drop, first statement: let mut cursor = self.cursor_front().
DropBegin ==
    /\ phase = "live"
    /\ it' = NoIter
    /\ phase' = "dropping"
    /\ Commit(cursor_front(M))
    /\ Call("drop", 0, NoneVal)
    /\ model' = RefCursorFront(model)
    /\ drain' = [n |-> len(M), start |-> ListSeq, taken |-> <<>>, calls |-> 0]
    /\ walk' = NoWalk

\* Drop::drop, one turn of `while let Some(_) = cursor.take() {}`.
DropLoop ==
    /\ phase = "dropping"
    /\ it' = NoIter
    /\ LET r == take(M)
       IN  /\ Commit(r.m)
           /\ Call("take", 0, r.val)
           /\ drain' = [drain EXCEPT !.taken = @ \o r.val, !.calls = @ + 1]
           /\ phase' = IF r.val = NoneVal THEN "dropped" ELSE "dropping"
    /\ model' = RefTake(model)
    /\ walk' = NoWalk

\* The list is gone; the program makes another with LinkedList::new().
New ==
    /\ phase = "dropped"
    /\ it' = NoIter
    /\ phase' = "live"
    /\ nodes' = nodes /\ alloc' = alloc /\ fault' = fault
    /\ list' = new
    /\ cursor' = [live |-> FALSE, node |-> None]
    /\ last' = [name |-> "new", arg |-> 0, ret |-> NoneVal, pos |-> 0]
    /\ model' = [seq |-> <<>>, pos |-> 0]
    /\ scen' = 0
    /\ drain' = NoDrain
    /\ walk' = NoWalk

\* list.iter(): the shared borrow ends the cursor's exclusive borrow.  round
\* counts the iter() calls made since the list was last used through a cursor
\* (2: two or more).
IterBegin ==
    /\ phase = "live"
    /\ it' = [live |-> TRUE, next_node |-> iter(M).next_node, seen |-> <<>>,
              done |-> FALSE, round |-> IF it.round = 0 THEN 1 ELSE 2]
    /\ cursor' = [live |-> FALSE, node |-> None]
    /\ model' = [model EXCEPT !.pos = 0]
    /\ Call("iter", 0, NoneVal)
    /\ walk' = NoWalk
    /\ UNCHANGED <<nodes, alloc, fault, list, phase, drain>>

\* Iterator::next on the Iter in use.
IterNext ==
    /\ phase = "live" /\ it.live
    /\ LET r == Iter_next(M, [next_node |-> it.next_node])
       IN  /\ it' = [it EXCEPT !.next_node = r.it.next_node,
                               !.seen = @ \o r.val,
                               !.done = (r.val = NoneVal)]
           /\ nodes' = r.m.nodes /\ alloc' = r.m.alloc /\ fault' = r.m.fault
           /\ list' = r.m.list
           /\ Call("iter_next", 0, r.val)
    /\ UNCHANGED <<cursor, phase, model, drain, walk>>

Next ==
    \/ CursorFront
    \/ CursorBack
    \/ PeekMut
    \/ Next_
    \/ Prev
    \/ Take
    \/ InsertAfter
    \/ InsertBefore
    \/ DropBegin
    \/ DropLoop
    \/ New
    \/ IterBegin
    \/ IterNext

Spec == Init /\ [][Next]_vars

----------------------------------------------------------------------------
(* Properties                                                              *)

IsPrefix(s, t) == Len(s) <= Len(t) /\ SubSeq(t, 1, Len(s)) = s

\* C1 (as amended): after every sequence of cursor operations from
\* LinkedList::new() the front-to-back element sequence of the list equals the
\* sequence of the reference model (insert_after puts e right after the
\* cursor's element, insert_before right before it, take deletes exactly the
\* cursor's element); the scenario insert_after(1), insert_after(2), next(),
\* insert_before(5), take() ends with [1,5] and len 2, because the cursor is
\* on 2 when take() runs.
C1_RefinesSequenceModel ==
    /\ ListSeq = model.seq
    /\ scen = ScenarioDone => ListSeq = <<1, 5>> /\ list.len = 2

\* C1 witness: the scenario has run to its take(), which removed 2.
C1_ScenarioRan ==
    scen = ScenarioDone /\ last.name = "take" /\ last.ret = Some(2)

\* C1 as stated: the same refinement, with the scenario ending in [1,2].
C1_AsStated ==
    /\ ListSeq = model.seq
    /\ scen = ScenarioDone => ListSeq = <<1, 2>> /\ list.len = 2

\* C2: after every insert_after, insert_before and take (indeed in every
\* state) len equals the number of nodes met walking next from front, and the
\* number met walking prev from back.
C2_LenCountsNodes ==
    /\ list.len = Len(ListSeq)
    /\ list.len = Len(ListSeqBack)

\* C2 witness: a take from the middle of a three-element list has returned.
C2_TookFromThree ==
    /\ last.name = "take" /\ last.ret # NoneVal /\ phase = "live"
    /\ list.len = 2
    /\ cursor.node = list.back

FrontChain == ChainNext(nodes, list.front, Fuel)

\* C3: front = None iff back = None iff len = 0; when len > 0, front.prev and
\* back.next are None, next and prev of live nodes are inverse to each other,
\* and the chain from front is acyclic and ends exactly at back.
C3_WellFormedChain ==
    /\ (list.front = None) <=> (list.back = None)
    /\ (list.front = None) <=> (list.len = 0)
    /\ list.len > 0 =>
         /\ nodes[list.front].prev = None
         /\ nodes[list.back].next = None
         /\ \A a \in alloc :
               /\ nodes[a].next # None => nodes[nodes[a].next].prev = a
               /\ nodes[a].prev # None => nodes[nodes[a].prev].next = a
         /\ Len(FrontChain) <= MaxNodes
         /\ \A i, j \in 1..Len(FrontChain) :
               FrontChain[i] = FrontChain[j] => i = j
         /\ FrontChain[Len(FrontChain)] = list.back

\* C3 witness: an insert_before between two nodes has returned.
C3_InsertedInMiddle ==
    /\ last.name = "insert_before"
    /\ list.len = 3
    /\ cursor.node # None
    /\ nodes[cursor.node].prev \notin {None, list.front}

\* C4: no operation touches a released node, no node is released twice, and
\* once the list is dropped no allocated node remains.
C4_ReleasedExactlyOnce ==
    /\ "use_after_free" \notin fault
    /\ "double_free" \notin fault
    /\ phase = "dropped" => alloc = {}

\* C4 witness: a list that still held three nodes has been dropped.
C4_DroppedNonEmpty == phase = "dropped" /\ drain.n = 3

\* C5: the drop loop, take() repeated on a cursor from cursor_front(), returns
\* the n elements in front-to-back order in n successful calls; call n+1
\* returns None and leaves len = 0 and front = back = None.
C5_DrainInOrder ==
    /\ phase = "dropping" =>
         /\ drain.calls = Len(drain.taken)
         /\ IsPrefix(drain.taken, drain.start)
         /\ list.len = drain.n - Len(drain.taken)
    /\ phase = "dropped" =>
         /\ Len(drain.start) = drain.n
         /\ drain.taken = drain.start
         /\ drain.calls = drain.n + 1
         /\ last.name = "take" /\ last.ret = NoneVal
         /\ list = new

\* C5 witness: the drop loop has drained three elements, not all equal.
C5_DrainedThree ==
    /\ phase = "dropped"
    /\ Len(drain.taken) = 3
    /\ drain.taken[1] # drain.taken[3]

\* The call about to be made is next() (dir = "next") or prev() on a cursor
\* whose node has no neighbour in that direction.
StepsPastBoundary(dir) ==
    /\ last'.name = dir
    /\ cursor.node # None
    /\ get_link(M, cursor.node, dir) = None

\* C6 (as amended): next() (resp. prev()) on a cursor whose node has no next
\* (resp. prev) returns None and leaves the cursor on that node; the cursor
\* does not become ghost.
C6_BoundaryStepStays ==
    [][\A dir \in {"next", "prev"} :
          StepsPastBoundary(dir) =>
             /\ last'.ret = NoneVal
             /\ cursor'.node = cursor.node
             /\ cursor'.node # None]_vars

\* C6 witness: next() on the back node has returned None.
C6_SteppedPastBack ==
    /\ last.name = "next" /\ last.ret = NoneVal
    /\ cursor.node # None /\ cursor.node = list.back
    /\ list.len = 2

\* C6 as stated: such a call returns None and leaves the cursor ghost.
C6_AsStated ==
    [][\A dir \in {"next", "prev"} :
          StepsPastBoundary(dir) =>
             /\ last'.ret = NoneVal
             /\ cursor'.node = None]_vars

Opposite(dir) == IF dir = "next" THEN "prev" ELSE "next"

\* C7: a next() or prev() that returns None leaves the cursor, front, back,
\* len and every node link as they were; it does not wrap, so on a list of at
\* least two elements the opposite step made right after it succeeds.
C7_FailedStepChangesNothing ==
    [][\A dir \in {"next", "prev"} :
          (last'.name = dir /\ last'.ret = NoneVal) =>
             /\ cursor'.node = cursor.node
             /\ list' = list
             /\ nodes' = nodes
             /\ alloc' = alloc
             /\ list'.len >= 2 => _step(M', Opposite(dir)).val # NoneVal]_vars

\* C7 witness: prev() on the front node of a longer list has returned None.
C7_SteppedPastFront ==
    /\ last.name = "prev" /\ last.ret = NoneVal
    /\ cursor.node # None /\ cursor.node = list.front
    /\ list.len = 3

\* C8: peek_mut() and take() on a ghost cursor return None and change neither
\* the cursor, front, back, len (no decrement) nor any node.
C8_GhostPeekTakeNoEffect ==
    [][(cursor.node = None /\ last'.name \in {"peek_mut", "take"}) =>
          /\ last'.ret = NoneVal
          /\ cursor'.node = None
          /\ list' = list
          /\ nodes' = nodes
          /\ alloc' = alloc
          /\ fault' = fault]_vars

\* C8 witness: take() on the ghost cursor of a live list has returned None.
C8_TookOnGhost ==
    /\ phase = "live" /\ cursor.live /\ cursor.node = None
    /\ last.name = "take" /\ last.ret = NoneVal

\* C9: on an empty list insert_after(e) and insert_before(e) do the same: one
\* new node holding e is front and back with prev = next = None, len is 1,
\* and the cursor goes from ghost onto the new node.
C9_InsertIntoEmpty ==
    [][(list.len = 0 /\ last'.name \in {"insert_after", "insert_before"}) =>
          /\ \A e \in Elems, p \in Nodes \ alloc :
                insert_after(M, e, p) = insert_before(M, e, p)
          /\ list'.front # None
          /\ list'.back = list'.front
          /\ list'.len = 1
          /\ alloc' = {list'.front}
          /\ nodes'[list'.front] =
                [element |-> last'.arg, next |-> None, prev |-> None]
          /\ cursor.node = None
          /\ cursor'.node = list'.front]_vars

\* C9 witness: insert_before on an empty list has returned.
C9_InsertedBeforeIntoEmpty ==
    /\ last.name = "insert_before"
    /\ list.len = 1
    /\ cursor.node = list.front

\* C10: take() with the cursor on the only node of a one-element list returns
\* that node's element and leaves len = 0, front = back = None and the cursor
\* ghost.
C10_TakeSoleElement ==
    [][(list.len = 1 /\ cursor.node # None /\ last'.name = "take") =>
          /\ last'.ret = Some(nodes[cursor.node].element)
          /\ list'.len = 0
          /\ list'.front = None
          /\ list'.back = None
          /\ cursor'.node = None]_vars

\* C10 witness: a take() on a live cursor has emptied the list.
C10_TookSoleElement ==
    /\ phase = "live"
    /\ last.name = "take" /\ last.ret # NoneVal
    /\ list.len = 0

RECURSIVE Reverse(_)
Reverse(s) == IF s = <<>> THEN <<>> ELSE Reverse(Tail(s)) \o <<Head(s)>>

RECURSIVE StepAll(_, _, _)
\* What next() (dir = "next") or prev() returns, call after call, from the
\* cursor of m until a call returns None.
StepAll(m, dir, fuel) ==
    LET r == _step(m, dir)
    IN  IF r.val = NoneVal \/ fuel = 0 THEN <<>>
        ELSE r.val \o StepAll(r.m, dir, fuel - 1)

\* The elements a walk visits: the one the cursor starts on, then every one a
\* step returns.
CursorWalk(m, dir) == peek_mut(m).val \o StepAll(m, dir, Fuel)

\* C11: on a list left unmodified, the walk from cursor_front() by next()
\* until None visits every element once, in order; the walk from
\* cursor_back() by prev() visits them in the reverse order; the two cursors
\* start on the first and the last node (ghost when the list is empty).
C11_WalksAreReverses ==
    /\ (walk.dir = "next" /\ walk.done) => walk.seen = model.seq
    /\ (walk.dir = "prev" /\ walk.done) => walk.seen = Reverse(model.seq)
    /\ phase = "live" =>
         /\ CursorWalk(cursor_front(M), "next") = model.seq
         /\ CursorWalk(cursor_back(M), "prev") = Reverse(model.seq)
         /\ list.len = 0 =>
               cursor_front(M).node = None /\ cursor_back(M).node = None
         /\ list.len > 0 =>
               /\ cursor_front(M).node = FrontChain[1]
               /\ cursor_back(M).node = FrontChain[Len(FrontChain)]

\* C11 witness: a walk from cursor_back() by prev() has run off the front of
\* a list of three elements that is no palindrome.
C11_WalkedBackward ==
    /\ walk.dir = "prev" /\ walk.done
    /\ Len(walk.seen) = 3
    /\ walk.seen[1] # walk.seen[3]
    /\ last.name = "prev" /\ last.ret = NoneVal

\* The node an insert has just allocated.
NewNode == CHOOSE p \in alloc' \ alloc : TRUE

\* C12: on a non-empty list insert_after(e) and insert_before(e) leave the
\* cursor on its node and add one to len; insert_after sets back to the new
\* node iff the cursor's node was back and leaves front alone, insert_before
\* sets front to the new node iff the cursor's node was front and leaves back
\* alone.
C12_InsertFrame ==
    [][(list.len > 0 /\ last'.name \in {"insert_after", "insert_before"}) =>
          /\ cursor'.node = cursor.node
          /\ list'.len = list.len + 1
          /\ Cardinality(alloc' \ alloc) = 1
          /\ nodes'[NewNode].element = last'.arg
          /\ last'.name = "insert_after" =>
                /\ list'.front = list.front
                /\ list'.back =
                      IF cursor.node = list.back THEN NewNode ELSE list.back
                /\ nodes'[cursor.node].next = NewNode
          /\ last'.name = "insert_before" =>
                /\ list'.back = list.back
                /\ list'.front =
                      IF cursor.node = list.front THEN NewNode ELSE list.front
                /\ nodes'[cursor.node].prev = NewNode]_vars

\* C12 witness: insert_after on the back node of a two-element list has
\* returned; the cursor is in the middle and back is the new node.
C12_InsertedAfterBack ==
    /\ last.name = "insert_after"
    /\ list.len = 3
    /\ last.pos = 2
    /\ cursor.node \notin {None, list.front, list.back}
    /\ nodes[list.back].element = last.arg

\* A take() is being made on a cursor that is on a node.
TakesNode == last'.name = "take" /\ cursor.node # None

\* C13: after a successful take(): a node with both neighbours leaves them
\* linked to each other, front and back unchanged and the cursor on the former
\* next; with only a prev, that prev is back and holds the cursor; with only a
\* next, that next is front and holds the cursor; len falls by exactly one.
C13_TakeMovesCursor ==
    [][TakesNode =>
          LET prev == nodes[cursor.node].prev
              next == nodes[cursor.node].next
          IN  /\ last'.ret # NoneVal
              /\ list'.len = list.len - 1
              /\ (prev # None /\ next # None) =>
                    /\ nodes'[prev].next = next
                    /\ nodes'[next].prev = prev
                    /\ list'.front = list.front
                    /\ list'.back = list.back
                    /\ cursor'.node = next
              /\ (prev # None /\ next = None) =>
                    /\ list'.back = prev
                    /\ nodes'[prev].next = None
                    /\ cursor'.node = prev
              /\ (prev = None /\ next # None) =>
                    /\ list'.front = next
                    /\ nodes'[next].prev = None
                    /\ cursor'.node = next]_vars

\* C13 witness: take() on the middle node of a three-element list has
\* returned.
C13_TookMiddle ==
    /\ phase = "live"
    /\ last.name = "take" /\ last.ret # NoneVal
    /\ last.pos = 2
    /\ list.len = 2
    /\ cursor.node = list.back

\* What the Iter in use has yielded is right so far: a prefix of the
\* reference sequence, and all len() elements of it once next() returned None.
IterYieldsList ==
    it.live =>
       /\ IsPrefix(it.seen, model.seq)
       /\ it.done => it.seen = model.seq /\ Len(it.seen) = list.len

\* C14: iter() yields exactly len() elements in front-to-back order and then
\* ends, changes no list field and no node, and yields the same again when
\* iter() is called once more on the unmodified list.
C14_IterYieldsAll ==
    [][last'.name \in {"iter", "iter_next"} =>
          /\ list' = list
          /\ nodes' = nodes
          /\ alloc' = alloc
          /\ fault' = fault
          /\ IterYieldsList']_vars

\* C14 witness: a second iter() in a row has been run to its end over three
\* elements that are no palindrome.
C14_IteratedTwice ==
    /\ it.live /\ it.done /\ it.round = 2
    /\ Len(it.seen) = 3
    /\ it.seen[1] # it.seen[3]
    /\ last.name = "iter_next" /\ last.ret = NoneVal

\* Nothing in m refers to node n: no link of another live node, neither
\* boundary pointer of the list, not the cursor.
Unreferenced(m, n) ==
    /\ \A a \in m.alloc \ {n} : m.nodes[a].next # n /\ m.nodes[a].prev # n
    /\ m.list.front # n
    /\ m.list.back # n
    /\ m.node # n

\* Every pointer held by the list, the cursor, the Iter or a live node is
\* None or a live node.
NoDanglingPointer ==
    /\ \A a \in alloc : nodes[a].next \in alloc \cup {None}
                        /\ nodes[a].prev \in alloc \cup {None}
    /\ list.front \in alloc \cup {None}
    /\ list.back \in alloc \cup {None}
    /\ cursor.node \in alloc \cup {None}
    /\ it.next_node \in alloc \cup {None}

\* C15: when take() hands its node to into_inner nothing refers to that node
\* any more, and in every state after take() has returned no live node, no
\* boundary pointer and no cursor refers to a released node.
C15_ReleasedNodeUnreferenced ==
    /\ NoDanglingPointer
    /\ (phase # "dropped" /\ cursor.live /\ cursor.node # None) =>
          Unreferenced(take_unlink(M), cursor.node)

\* C15 witness: take() has released the front node of a three-element list.
C15_ReleasedFront ==
    /\ phase = "live"
    /\ last.name = "take" /\ last.ret # NoneVal
    /\ last.pos = 1
    /\ list.len = 2
    /\ cursor.node = list.front
    /\ Cardinality(alloc) = 2

\* The cursor of the reference model is at the place of Cursor.node in the
\* chain (0: ghost).
CursorMatchesModel ==
    cursor.live =>
       /\ model.pos \in 0..Len(FrontChain)
       /\ cursor.node = IF model.pos = 0 THEN None ELSE FrontChain[model.pos]

\* C16: a cursor from cursor_front() or cursor_back(), driven by next, prev,
\* peek_mut, insert_after, insert_before and take, is ghost iff the list is
\* empty, and is otherwise on a live node of the chain from front; so _insert
\* takes its None branch only on an empty list.
C16_GhostIffEmpty ==
    cursor.live =>
       /\ (cursor.node = None) <=> (list.len = 0)
       /\ cursor.node # None =>
             /\ cursor.node \in alloc
             /\ \E i \in 1..Len(FrontChain) : FrontChain[i] = cursor.node

\* C16 witness: take() on the back node of a two-element list has returned
\* and left the cursor on the remaining node.
C16_CursorFollowedTake ==
    /\ phase = "live" /\ cursor.live
    /\ last.name = "take" /\ last.ret # NoneVal
    /\ last.pos = 2
    /\ list.len = 1
    /\ cursor.node = list.front

\* C17: `len -= 1` never runs with len = 0, so len never underflows; len
\* changes by +1 on every insert, by -1 on every take that returns Some, and
\* not otherwise.
C17_LenNeverUnderflows ==
    [][/\ "len_underflow" \notin fault'
       /\ (last'.name = "take" /\ last'.ret # NoneVal) => list.len >= 1
       /\ list'.len - list.len =
             IF last'.name \in {"insert_after", "insert_before"} THEN 1
             ELSE IF last'.name = "take" /\ last'.ret # NoneVal THEN -1
             ELSE 0]_vars

\* C17 witness: the drop loop's take() has brought len from 1 to 0.
C17_DroppedToZero ==
    /\ phase = "dropping"
    /\ last.name = "take" /\ last.ret # NoneVal
    /\ list.len = 0
    /\ drain.n = 3

====
